---- MODULE Spec2Model ----
(***************************************************************************)
(* A model of the plagiarism detector's core: TextPreprocessor,            *)
(* HashingEngine, SimilarityEngine and PlagiarismDetector.                  *)
(*                                                                         *)
(* Texts are sequences of one-character strings.  JavaScript numbers that  *)
(* hold 32-bit quantities are pairs <<hi, lo>> with value hi*65536 + lo,   *)
(* 0 <= lo < 65536; hi is negative for a negative number.  Quotients of    *)
(* set sizes are kept as fractions [num, den] and compared by cross        *)
(* multiplication: for sizes below 2^32 the IEEE quotient compares with    *)
(* the cutoffs 0.2, 0.4, 0.5, 0.6, 0.8 and with other such quotients       *)
(* exactly as the fraction does.                                           *)
(***************************************************************************)
EXTENDS Integers, Sequences, FiniteSets, TLC

VARIABLES config, docs, call, ret

vars == <<config, docs, call, ret>>

(***************************************************************************)
(* Bounds of the model.                                                    *)
(***************************************************************************)
\* longest string handed to fnvHash in SpecHash
MaxHashLen == 3

\* the sets handed to the SimilarityEngine in SpecSets are subsets of 1..MaxItems
MaxItems == 4

\* longest content of a document in Spec
MaxLen == 2

\* longest content of a document in SpecWinnow
MaxWinLen == 4

\* largest shingle size and winnowing window in SpecWinnow
MaxK == 2

MaxW == 3

\* most documents a caller fingerprints in SpecBatch
MaxDocs == 3

\* longest text handed to the TextPreprocessor in SpecText
MaxTextLen == 3

\* largest shingle size handed to the TextPreprocessor in SpecText
MaxGram == 2

\* longest MinHash signature in SpecMinHash
MaxSigLen == 3

\* longest of the short contents of a document in SpecCommon
MaxCommonLen == 3

\* the scores handed to classifySimilarity in SpecClassify are n / d with
\* d <= MaxDen
MaxDen == 10

(***************************************************************************)
(* Sequence helpers.                                                       *)
(***************************************************************************)
Min2(a, b) == IF a < b THEN a ELSE b

Max2(a, b) == IF a < b THEN b ELSE a

\* all sequences over S of length 0..n
SeqsUpTo(S, n) == UNION { [1..m -> S] : m \in 0..n }

RECURSIVE Flatten(_, _, _)
\* parts[lo] \o ... \o parts[hi], what a loop that appends parts[i] at its
\* i-th turn builds
Flatten(parts, lo, hi) ==
    IF lo > hi THEN << >>
    ELSE IF lo = hi THEN parts[lo]
    ELSE LET mid == (lo + hi) \div 2
         IN  Flatten(parts, lo, mid) \o Flatten(parts, mid + 1, hi)

(***************************************************************************)
(* 32-bit arithmetic of the hash (Math.imul, ^, >>> on JavaScript numbers).*)
(***************************************************************************)
Hi(x) == x[1]

Lo(x) == x[2]

RECURSIVE Xor16(_, _)
\* bitwise exclusive or of two naturals below 65536
Xor16(a, b) ==
    IF a = 0 THEN b
    ELSE IF b = 0 THEN a
    ELSE (((a % 2) + (b % 2)) % 2) + 2 * Xor16(a \div 2, b \div 2)

\* the full product of two naturals below 65536, as <<hi, lo>>
Mul16(a, b) ==
    LET p0 == a * (b % 256)
        p1 == a * (b \div 256)
        low == p0 + (p1 % 256) * 256
    IN  << (low \div 65536) + (p1 \div 256), (low % 65536) >>

\* ToUint32: the number modulo 2^32
ToUint32(x) == << Hi(x) % 65536, Lo(x) >>

\* ToInt32: the same 32 bits read as a two's complement number
ToInt32(x) ==
    LET u == ToUint32(x)
    IN  IF Hi(u) >= 32768 THEN << Hi(u) - 65536, Lo(u) >> ELSE u

\* x ^ c for a number x and a UTF-16 code unit c: an int32
BitXor(x, c) ==
    LET u == ToUint32(x)
    IN  ToInt32(<< Hi(u), Xor16(Lo(u), c) >>)

\* Math.imul(x, y): the low 32 bits of the product, as an int32
Imul(x, y) ==
    LET a == ToUint32(x)
        b == ToUint32(y)
        p == Mul16(Lo(a), Lo(b))
        h == (Hi(p) + Lo(Mul16(Hi(a), Lo(b))) + Lo(Mul16(Lo(a), Hi(b)))) % 65536
    IN  ToInt32(<< h, Lo(p) >>)

\* x < y on numbers
NumLess(x, y) == Hi(x) < Hi(y) \/ (Hi(x) = Hi(y) /\ Lo(x) < Lo(y))

(***************************************************************************)
(* Characters.                                                             *)
(***************************************************************************)
Letters == {"a", "b", "c", "d", "e", "f", "g", "h", "i", "j", "k", "l", "m",
            "n", "o", "p", "q", "r", "s", "t", "u", "v", "w", "x", "y", "z"}

Upper == {"A", "B"}

\* a digit and the underscore, the other word characters
WordExtra == {"0", "_"}

Punct == {".", "!"}

White == {" ", "\t"}

\* String.prototype.charCodeAt for the characters of the model
CharCodeAt(c) ==
    CASE c = "a" -> 97  [] c = "b" -> 98  [] c = "c" -> 99  [] c = "d" -> 100
      [] c = "e" -> 101 [] c = "f" -> 102 [] c = "g" -> 103 [] c = "h" -> 104
      [] c = "i" -> 105 [] c = "j" -> 106 [] c = "k" -> 107 [] c = "l" -> 108
      [] c = "m" -> 109 [] c = "n" -> 110 [] c = "o" -> 111 [] c = "p" -> 112
      [] c = "q" -> 113 [] c = "r" -> 114 [] c = "s" -> 115 [] c = "t" -> 116
      [] c = "u" -> 117 [] c = "v" -> 118 [] c = "w" -> 119 [] c = "x" -> 120
      [] c = "y" -> 121 [] c = "z" -> 122 [] c = "A" -> 65  [] c = "B" -> 66
      [] c = "." -> 46  [] c = "!" -> 33  [] c = " " -> 32  [] c = "\t" -> 9
      [] c = "0" -> 48  [] c = "_" -> 95

(***************************************************************************)
(* TextPreprocessor                                                        *)
(***************************************************************************)
\* \w of the regular expressions, on the characters of the model
IsWordChar(c) == c \in Letters \cup Upper \cup WordExtra

\* \s of the regular expressions, and what trim() strips
IsSpaceChar(c) == c \in White

\* String.prototype.toLowerCase, one character
LowerChar(c) == CASE c = "A" -> "a" [] c = "B" -> "b" [] OTHER -> c

ToLowerCase(text) == [i \in 1..Len(text) |-> LowerChar(text[i])]

\* .replace(/[^\w\s]/g, ' ')
ReplacePunct(text) ==
    [i \in 1..Len(text) |->
        IF ~IsWordChar(text[i]) /\ ~IsSpaceChar(text[i]) THEN " " ELSE text[i]]

\* .replace(/\s+/g, ' '): a run of whitespace gives one space, at its last
\* character
CollapseSpaces(text) ==
    Flatten([n \in 1..Len(text) |->
                IF ~IsSpaceChar(text[n]) THEN << text[n] >>
                ELSE IF n < Len(text) /\ IsSpaceChar(text[n + 1]) THEN << >>
                ELSE << " " >>],
            1, Len(text))

RECURSIVE TrimStart(_)
TrimStart(text) ==
    IF text # << >> /\ IsSpaceChar(Head(text)) THEN TrimStart(Tail(text)) ELSE text

RECURSIVE TrimEnd(_)
TrimEnd(text) ==
    IF text # << >> /\ IsSpaceChar(text[Len(text)])
    THEN TrimEnd(SubSeq(text, 1, Len(text) - 1))
    ELSE text

\* String.prototype.trim
Trim(text) == TrimEnd(TrimStart(text))

\* mutant: the result is not trimmed
normalize_NoTrim(text) == CollapseSpaces(ReplacePunct(ToLowerCase(text)))

normalize(text) == Trim(CollapseSpaces(ReplacePunct(ToLowerCase(text))))

RECURSIVE SplitFrom(_, _, _)
\* the pieces of text between single spaces, the piece in progress being cur
SplitFrom(text, i, cur) ==
    IF i > Len(text) THEN << cur >>
    ELSE IF text[i] = " " THEN << cur >> \o SplitFrom(text, i + 1, << >>)
    ELSE SplitFrom(text, i + 1, Append(cur, text[i]))

\* String.prototype.split(' ')
Split(text) == SplitFrom(text, 1, << >>)

\* Array.prototype.filter with the predicate "belongs to keep"
FilterSeq(seq, keep) ==
    Flatten([n \in 1..Len(seq) |-> IF keep[seq[n]] THEN << seq[n] >> ELSE << >>],
            1, Len(seq))

RECURSIVE Join(_)
\* Array.prototype.join(' ')
Join(words) ==
    IF words = << >> THEN << >>
    ELSE IF Len(words) = 1 THEN words[1]
    ELSE words[1] \o << " " >> \o Join(Tail(words))

\* mutant: the zero-length tokens are kept
tokenize_KeepEmpty(text) == Split(normalize(text))

tokenize(text) ==
    LET parts == Split(normalize(text))
    IN  FilterSeq(parts, [w \in {parts[i] : i \in 1..Len(parts)} |-> Len(w) > 0])

\* String.prototype.substring(from, to): bounds clamped to the string, swapped
\* when from > to
Substring(text, from, to) ==
    LET a == Max2(0, Min2(from, Len(text)))
        b == Max2(0, Min2(to, Len(text)))
    IN  SubSeq(text, Min2(a, b) + 1, Max2(a, b))

\* Array.prototype.slice(from, to): negative bounds count from the end
Slice(seq, from, to) ==
    LET n == Len(seq)
        a == IF from < 0 THEN Max2(n + from, 0) ELSE Min2(from, n)
        b == IF to < 0 THEN Max2(n + to, 0) ELSE Min2(to, n)
    IN  SubSeq(seq, a + 1, b)

\* mutant: the k-grams are cut from the text as given
generateKGrams_NotNormalized(text, k) ==
    [j \in 1..(Len(text) - k + 1) |-> Substring(text, j - 1, j - 1 + k)]

\* mutant: the loop runs one index too far
generateKGrams_OneTooFar(text, k) ==
    LET normalized == normalize(text)
    IN  [j \in 1..(Len(normalized) - k + 2) |-> Substring(normalized, j - 1, j - 1 + k)]

generateKGrams(text, k) ==
    LET normalized == normalize(text)
    IN  [j \in 1..(Len(normalized) - k + 1) |-> Substring(normalized, j - 1, j - 1 + k)]

generateWordNGrams(text, n) ==
    LET words == tokenize(text)
    IN  [j \in 1..(Len(words) - n + 1) |-> Join(Slice(words, j - 1, j - 1 + n))]

stopWords ==
    {<<"t","h","e">>, <<"a">>, <<"a","n">>, <<"a","n","d">>, <<"o","r">>,
     <<"b","u","t">>, <<"i","n">>, <<"o","n">>, <<"a","t">>, <<"t","o">>,
     <<"f","o","r">>, <<"o","f">>, <<"w","i","t","h">>, <<"i","s">>,
     <<"w","a","s">>, <<"a","r","e">>, <<"w","e","r","e">>, <<"b","e">>,
     <<"b","e","e","n">>, <<"b","e","i","n","g">>, <<"h","a","v","e">>,
     <<"h","a","s">>, <<"h","a","d">>, <<"d","o">>, <<"d","o","e","s">>,
     <<"d","i","d">>, <<"w","i","l","l">>, <<"w","o","u","l","d">>,
     <<"c","o","u","l","d">>, <<"s","h","o","u","l","d">>, <<"m","a","y">>,
     <<"m","i","g","h","t">>, <<"c","a","n">>, <<"t","h","i","s">>,
     <<"t","h","a","t">>, <<"t","h","e","s","e">>, <<"t","h","o","s","e">>}

\* mutant: the filter keeps the stop words
removeStopWords_KeepsThem(text) ==
    LET words == tokenize(text)
    IN  Join(FilterSeq(words, [w \in {words[i] : i \in 1..Len(words)} |-> w \in stopWords]))

removeStopWords(text) ==
    LET words == tokenize(text)
    IN  Join(FilterSeq(words, [w \in {words[i] : i \in 1..Len(words)} |-> w \notin stopWords]))

(***************************************************************************)
(* HashingEngine.fnvHash                                                   *)
(***************************************************************************)
\* 0x01000193
FNV_PRIME == << 256, 403 >>

\* 0x811c9dc5
FNV_OFFSET == << 33052, 40389 >>

\* mutant: FNV-1, multiply before the exclusive or
FnvStep_MultiplyFirst(hash, c) == BitXor(Imul(hash, FNV_PRIME), CharCodeAt(c))

\* one turn of the loop: hash ^= charCodeAt(i); hash = Math.imul(hash, FNV_PRIME)
FnvStep(hash, c) == Imul(BitXor(hash, CharCodeAt(c)), FNV_PRIME)

RECURSIVE FnvTrace(_, _)
\* the values of hash before the loop and after each of its first n turns
FnvTrace(str, n) ==
    IF n = 0 THEN << FNV_OFFSET >>
    ELSE LET before == FnvTrace(str, n - 1)
         IN  Append(before, FnvStep(before[n], str[n]))

\* hash >>> 0
fnvHash(str) == ToUint32(FnvTrace(str, Len(str))[Len(str) + 1])

(***************************************************************************)
(* HashingEngine.generateFingerprints, generateWinnowingFingerprints       *)
(***************************************************************************)
\* kGrams.map(kg => this.fnvHash(kg))
HashAll(kGrams) == [i \in 1..Len(kGrams) |-> fnvHash(kGrams[i])]

\* mutant: the first k-gram is not hashed
generateFingerprints_SkipFirst(kGrams) ==
    { fnvHash(kGrams[i]) : i \in 2..Len(kGrams) }

generateFingerprints(kGrams) == { fnvHash(kGrams[i]) : i \in 1..Len(kGrams) }

\* Math.min() of no argument
Infinity == << "Infinity" >>

\* mutant: the first value of the window
MathMin_First(window) ==
    IF window = << >> THEN Infinity
    ELSE Head(window)

RECURSIVE MathMin(_)
\* Math.min(...window)
MathMin(window) ==
    IF window = << >> THEN Infinity
    ELSE LET rest == MathMin(Tail(window))
         IN  IF rest = Infinity \/ NumLess(Head(window), rest) THEN Head(window)
             ELSE rest

\* mutant: the last window is not visited
WinnowHashes_SkipLast(hashes, windowSize) ==
    { MathMin(Slice(hashes, i, i + windowSize)) :
        i \in 0..(Len(hashes) - windowSize - 1) }

\* mutant: the windows that run past the end of the sequence are visited too
WinnowHashes_PartialWindows(hashes, windowSize) ==
    { MathMin(Slice(hashes, i, i + windowSize)) : i \in 0..(Len(hashes) - 1) }

\* the loop over the windows of the hash sequence
WinnowHashes(hashes, windowSize) ==
    { MathMin(Slice(hashes, i, i + windowSize)) :
        i \in 0..(Len(hashes) - windowSize) }

\* mutant: a hash sequence shorter than the window is taken as one window
generateWinnowingFingerprints_ShortWindow(kGrams, windowSize) ==
    IF Len(kGrams) = 0 THEN {}
    ELSE IF Len(kGrams) < windowSize THEN { MathMin(HashAll(kGrams)) }
    ELSE WinnowHashes(HashAll(kGrams), windowSize)

generateWinnowingFingerprints(kGrams, windowSize) ==
    IF Len(kGrams) = 0 THEN {}
    ELSE WinnowHashes(HashAll(kGrams), windowSize)

(***************************************************************************)
(* SimilarityEngine                                                        *)
(***************************************************************************)
\* the quotient n / d of two numbers, kept as a fraction
Quot(n, d) == [num |-> n, den |-> d]

\* the quotient n / Math.sqrt(r), kept with its radicand
QuotSqrt(n, r) == [num |-> n, radicand |-> r]

\* x >= y on fractions with positive denominators
FracGeq(x, y) == x.num * y.den >= y.num * x.den

FracEq(x, y) == x.num * y.den = y.num * x.den

\* mutant: the membership test is made in the set that is iterated
intersection_SmallerSet(set1, set2) ==
    LET smaller == IF Cardinality(set1) < Cardinality(set2) THEN set1 ELSE set2
    IN  { item \in smaller : item \in smaller }

\* iterates the smaller set and keeps what the larger has
intersection(set1, set2) ==
    LET smaller == IF Cardinality(set1) < Cardinality(set2) THEN set1 ELSE set2
        larger == IF Cardinality(set1) < Cardinality(set2) THEN set2 ELSE set1
    IN  { item \in smaller : item \in larger }

\* mutant: the items of set1 are not copied into the result
union_SecondOnly(set1, set2) == { item \in set2 : TRUE }

\* a copy of set1 with every item of set2 added
union(set1, set2) == set1 \cup { item \in set2 : TRUE }

difference(set1, set2) == { item \in set1 : item \notin set2 }

\* mutant: the empty-set rule looks at the first set only
computeJaccardSimilarity_FirstEmpty(set1, set2) ==
    IF Cardinality(set1) = 0 THEN Quot(1, 1)
    ELSE Quot(Cardinality(intersection(set1, set2)), Cardinality(union(set1, set2)))

\* mutant: the empty-set rule taken with "or"
computeJaccardSimilarity_EitherEmpty(set1, set2) ==
    IF Cardinality(set1) = 0 \/ Cardinality(set2) = 0 THEN Quot(1, 1)
    ELSE Quot(Cardinality(intersection(set1, set2)), Cardinality(union(set1, set2)))

computeJaccardSimilarity(set1, set2) ==
    IF Cardinality(set1) = 0 /\ Cardinality(set2) = 0 THEN Quot(1, 1)
    ELSE Quot(Cardinality(intersection(set1, set2)), Cardinality(union(set1, set2)))

\* mutant: divides by the larger size
computeOverlapCoefficient_Max(set1, set2) ==
    IF Cardinality(set1) = 0 \/ Cardinality(set2) = 0 THEN Quot(0, 1)
    ELSE Quot(Cardinality(intersection(set1, set2)),
              Max2(Cardinality(set1), Cardinality(set2)))

computeOverlapCoefficient(set1, set2) ==
    IF Cardinality(set1) = 0 \/ Cardinality(set2) = 0 THEN Quot(0, 1)
    ELSE Quot(Cardinality(intersection(set1, set2)),
              Min2(Cardinality(set1), Cardinality(set2)))

computeCosineSimilarity(set1, set2) ==
    IF Cardinality(set1) = 0 \/ Cardinality(set2) = 0 THEN QuotSqrt(0, 1)
    ELSE QuotSqrt(Cardinality(intersection(set1, set2)),
                  Cardinality(set1) * Cardinality(set2))

\* mutant: divides by twice the first set's size
computeDiceCoefficient_FirstSize(set1, set2) ==
    IF Cardinality(set1) = 0 /\ Cardinality(set2) = 0 THEN Quot(1, 1)
    ELSE Quot(2 * Cardinality(intersection(set1, set2)),
              Cardinality(set1) + Cardinality(set1))

computeDiceCoefficient(set1, set2) ==
    IF Cardinality(set1) = 0 /\ Cardinality(set2) = 0 THEN Quot(1, 1)
    ELSE Quot(2 * Cardinality(intersection(set1, set2)),
              Cardinality(set1) + Cardinality(set2))

\* mutant: the two set sizes are exchanged
computeAllSimilarities_SizesSwapped(set1, set2) ==
    [jaccardSimilarity |-> computeJaccardSimilarity(set1, set2),
     cosineSimilarity |-> computeCosineSimilarity(set1, set2),
     overlapCoefficient |-> computeOverlapCoefficient(set1, set2),
     intersectionSize |-> Cardinality(intersection(set1, set2)),
     unionSize |-> Cardinality(union(set1, set2)),
     set1Size |-> Cardinality(set2),
     set2Size |-> Cardinality(set1)]

\* mutant: the Jaccard score computed without its empty-set rule
computeAllSimilarities_NoEmptyRule(set1, set2) ==
    [jaccardSimilarity |-> Quot(Cardinality(intersection(set1, set2)),
                                Cardinality(union(set1, set2))),
     cosineSimilarity |-> computeCosineSimilarity(set1, set2),
     overlapCoefficient |-> computeOverlapCoefficient(set1, set2),
     intersectionSize |-> Cardinality(intersection(set1, set2)),
     unionSize |-> Cardinality(union(set1, set2)),
     set1Size |-> Cardinality(set1),
     set2Size |-> Cardinality(set2)]

computeAllSimilarities(set1, set2) ==
    [jaccardSimilarity |-> computeJaccardSimilarity(set1, set2),
     cosineSimilarity |-> computeCosineSimilarity(set1, set2),
     overlapCoefficient |-> computeOverlapCoefficient(set1, set2),
     intersectionSize |-> Cardinality(intersection(set1, set2)),
     unionSize |-> Cardinality(union(set1, set2)),
     set1Size |-> Cardinality(set1),
     set2Size |-> Cardinality(set2)]

\* the indices (from 0) at which kg occurs in kGrams, ascending
PositionsOf(kGrams, kg) ==
    LET hits == [i \in 1..Len(kGrams) |-> i - 1]
    IN  FilterSeq(hits, [p \in 0..(Len(kGrams) - 1) |-> kGrams[p + 1] = kg])

\* the keys of the position map of kGrams, in insertion order: a k-gram is
\* entered where it occurs first
MapKeys(kGrams) ==
    Flatten([n \in 1..Len(kGrams) |->
                IF \E j \in 1..(n - 1) : kGrams[j] = kGrams[n] THEN << >>
                ELSE << kGrams[n] >>],
            1, Len(kGrams))

\* mutant: the positions in the first sequence are reported for both
findCommonKGrams_Positions1Twice(kGrams1, kGrams2) ==
    LET keys1 == MapKeys(kGrams1)
        keys2 == { kGrams2[i] : i \in 1..Len(kGrams2) }
        both == FilterSeq(keys1, [kg \in {keys1[i] : i \in 1..Len(keys1)} |-> kg \in keys2])
    IN  [i \in 1..Len(both) |->
            [kgram |-> both[i],
             positions1 |-> PositionsOf(kGrams1, both[i]),
             positions2 |-> PositionsOf(kGrams1, both[i])]]

findCommonKGrams(kGrams1, kGrams2) ==
    LET keys1 == MapKeys(kGrams1)
        keys2 == { kGrams2[i] : i \in 1..Len(kGrams2) }
        both == FilterSeq(keys1, [kg \in {keys1[i] : i \in 1..Len(keys1)} |-> kg \in keys2])
    IN  [i \in 1..Len(both) |->
            [kgram |-> both[i],
             positions1 |-> PositionsOf(kGrams1, both[i]),
             positions2 |-> PositionsOf(kGrams2, both[i])]]

\* mutant: a cutoff value belongs to the lower band
classifySimilarity_Exclusive(similarity) ==
    IF ~FracGeq(Quot(4, 5), similarity)
    THEN [level |-> "very-high", label |-> "Very High Similarity",
          color |-> "text-red-600 dark:text-red-400"]
    ELSE IF ~FracGeq(Quot(3, 5), similarity)
    THEN [level |-> "high", label |-> "High Similarity",
          color |-> "text-orange-600 dark:text-orange-400"]
    ELSE IF ~FracGeq(Quot(2, 5), similarity)
    THEN [level |-> "medium", label |-> "Medium Similarity",
          color |-> "text-yellow-600 dark:text-yellow-400"]
    ELSE IF ~FracGeq(Quot(1, 5), similarity)
    THEN [level |-> "low", label |-> "Low Similarity",
          color |-> "text-blue-600 dark:text-blue-400"]
    ELSE [level |-> "none", label |-> "Minimal Similarity",
          color |-> "text-green-600 dark:text-green-400"]

classifySimilarity(similarity) ==
    IF FracGeq(similarity, Quot(4, 5))
    THEN [level |-> "very-high", label |-> "Very High Similarity",
          color |-> "text-red-600 dark:text-red-400"]
    ELSE IF FracGeq(similarity, Quot(3, 5))
    THEN [level |-> "high", label |-> "High Similarity",
          color |-> "text-orange-600 dark:text-orange-400"]
    ELSE IF FracGeq(similarity, Quot(2, 5))
    THEN [level |-> "medium", label |-> "Medium Similarity",
          color |-> "text-yellow-600 dark:text-yellow-400"]
    ELSE IF FracGeq(similarity, Quot(1, 5))
    THEN [level |-> "low", label |-> "Low Similarity",
          color |-> "text-blue-600 dark:text-blue-400"]
    ELSE [level |-> "none", label |-> "Minimal Similarity",
          color |-> "text-green-600 dark:text-green-400"]

(***************************************************************************)
(* PlagiarismDetector                                                      *)
(***************************************************************************)
DefaultConfig ==
    [kGramSize |-> 5, useWinnowing |-> FALSE, winnowingWindowSize |-> 4,
     removeStopWords |-> FALSE, useWordNGrams |-> FALSE, wordNGramSize |-> 3]

\* constructor(config): every field the partial config lacks takes its default
NewDetector(partial) ==
    [f \in DOMAIN DefaultConfig |->
        IF f \in DOMAIN partial THEN partial[f] ELSE DefaultConfig[f]]

\* mutant: the text is not normalized before the stop words are looked for
preprocessText_NotNormalized(cfg, text) ==
    IF cfg.removeStopWords THEN removeStopWords(text) ELSE text

preprocessText(cfg, text) ==
    LET processed == normalize(text)
    IN  IF cfg.removeStopWords THEN removeStopWords(processed) ELSE processed

detectorGenerateKGrams(cfg, text) ==
    IF cfg.useWordNGrams THEN generateWordNGrams(text, cfg.wordNGramSize)
    ELSE generateKGrams(text, cfg.kGramSize)

detectorGenerateFingerprints(cfg, kGrams) ==
    IF cfg.useWinnowing
    THEN generateWinnowingFingerprints(kGrams, cfg.winnowingWindowSize)
    ELSE generateFingerprints(kGrams)

\* mutant: the text that is fingerprinted depends on the document's id
createDocumentFingerprint_ByDocumentId(cfg, documentId, documentName, content) ==
    LET preprocessedText ==
            preprocessText(cfg, IF documentId = "d1" THEN content ELSE << >>)
        kGrams == detectorGenerateKGrams(cfg, preprocessedText)
        fingerprints == detectorGenerateFingerprints(cfg, kGrams)
    IN  [documentId |-> documentId, documentName |-> documentName,
         content |-> content, kGrams |-> kGrams, fingerprints |-> fingerprints,
         preprocessedText |-> preprocessedText]

createDocumentFingerprint(cfg, documentId, documentName, content) ==
    LET preprocessedText == preprocessText(cfg, content)
        kGrams == detectorGenerateKGrams(cfg, preprocessedText)
        fingerprints == detectorGenerateFingerprints(cfg, kGrams)
    IN  [documentId |-> documentId, documentName |-> documentName,
         content |-> content, kGrams |-> kGrams, fingerprints |-> fingerprints,
         preprocessedText |-> preprocessedText]

\* an omitted argument
Undefined == [undefined |-> TRUE]

\* plagiarismThreshold: number = 0.5
DefaultThreshold(plagiarismThreshold) ==
    IF plagiarismThreshold = Undefined THEN Quot(1, 2) ELSE plagiarismThreshold

\* commonKGrams.slice(0, 100)
CommonLimit == 100

\* mutant: the verdict taken with > in place of >=
compareDocuments_Strict(doc1, doc2, plagiarismThreshold) ==
    LET threshold == DefaultThreshold(plagiarismThreshold)
        similarity == computeAllSimilarities(doc1.fingerprints, doc2.fingerprints)
    IN  [doc1 |-> [id |-> doc1.documentId, name |-> doc1.documentName],
         doc2 |-> [id |-> doc2.documentId, name |-> doc2.documentName],
         similarity |-> similarity,
         similarityPercentage |->
             Quot(similarity.jaccardSimilarity.num * 100, similarity.jaccardSimilarity.den),
         classification |-> classifySimilarity(similarity.jaccardSimilarity),
         isPlagiarized |-> ~FracGeq(threshold, similarity.jaccardSimilarity),
         commonKGrams |->
             Slice(findCommonKGrams(doc1.kGrams, doc2.kGrams), 0, CommonLimit)]

compareDocuments(doc1, doc2, plagiarismThreshold) ==
    LET threshold == DefaultThreshold(plagiarismThreshold)
        similarity == computeAllSimilarities(doc1.fingerprints, doc2.fingerprints)
        similarityPercentage ==
            Quot(similarity.jaccardSimilarity.num * 100, similarity.jaccardSimilarity.den)
        classification == classifySimilarity(similarity.jaccardSimilarity)
        isPlagiarized == FracGeq(similarity.jaccardSimilarity, threshold)
        commonKGrams == findCommonKGrams(doc1.kGrams, doc2.kGrams)
    IN  [doc1 |-> [id |-> doc1.documentId, name |-> doc1.documentName],
         doc2 |-> [id |-> doc2.documentId, name |-> doc2.documentName],
         similarity |-> similarity,
         similarityPercentage |-> similarityPercentage,
         classification |-> classification,
         isPlagiarized |-> isPlagiarized,
         commonKGrams |-> Slice(commonKGrams, 0, CommonLimit)]

RECURSIVE InsertDesc(_, _)
\* r placed after every result whose percentage is not smaller than its own
InsertDesc(sorted, r) ==
    IF sorted = << >> THEN << r >>
    ELSE IF FracGeq(Head(sorted).similarityPercentage, r.similarityPercentage)
    THEN << Head(sorted) >> \o InsertDesc(Tail(sorted), r)
    ELSE << r >> \o sorted

RECURSIVE SortDesc(_)
\* .sort((a, b) => b.similarityPercentage - a.similarityPercentage), a stable sort
SortDesc(results) ==
    IF results = << >> THEN << >>
    ELSE InsertDesc(SortDesc(SubSeq(results, 1, Len(results) - 1)),
                    results[Len(results)])

\* mutant: no document is filtered out
compareAgainstMultiple_NoFilter(targetDoc, documents, plagiarismThreshold) ==
    SortDesc([i \in 1..Len(documents) |->
                 compareDocuments(targetDoc, documents[i], plagiarismThreshold)])

compareAgainstMultiple(targetDoc, documents, plagiarismThreshold) ==
    LET others == FilterSeq(documents,
                    [d \in {documents[i] : i \in 1..Len(documents)} |->
                        d.documentId # targetDoc.documentId])
    IN  SortDesc([i \in 1..Len(others) |->
                    compareDocuments(targetDoc, others[i], plagiarismThreshold)])

RECURSIVE PairsFrom(_, _, _)
\* the index pairs of the nested loops, in the order the loops visit them
PairsFrom(i, j, n) ==
    IF i > n THEN << >>
    ELSE IF j > n THEN PairsFrom(i + 1, i + 2, n)
    ELSE << << i, j >> >> \o PairsFrom(i, j + 1, n)

\* mutant: the inner loop starts at j = i
compareAll_WithSelf(documents, plagiarismThreshold) ==
    LET pairs == PairsFrom(1, 1, Len(documents))
    IN  SortDesc([p \in 1..Len(pairs) |->
                    compareDocuments(documents[pairs[p][1]], documents[pairs[p][2]],
                                     plagiarismThreshold)])

compareAll(documents, plagiarismThreshold) ==
    LET pairs == PairsFrom(1, 2, Len(documents))
    IN  SortDesc([p \in 1..Len(pairs) |->
                    compareDocuments(documents[pairs[p][1]], documents[pairs[p][2]],
                                     plagiarismThreshold)])

\* What compareDocuments leaves of its two arguments: the fingerprint sets
\* are read through size and has, the kGrams through forEach, and every
\* set, map and array it writes to is one it has built itself.
argumentsAfterCompareDocuments(doc1, doc2) == << doc1, doc2 >>

\* mutant: the documents of the target's id are removed from the list itself
documentsAfterCompareAgainstMultiple_InPlace(targetDoc, documents) ==
    FilterSeq(documents,
              [d \in {documents[i] : i \in 1..Len(documents)} |->
                  d.documentId # targetDoc.documentId])

\* What compareAgainstMultiple leaves of its documents argument: filter
\* returns a new array, map another, and sort orders the array map returned.
documentsAfterCompareAgainstMultiple(targetDoc, documents) == documents

\* What compareAll leaves of its documents argument: the loops index it, and
\* sort orders the results array.
documentsAfterCompareAll(documents) == documents

\* A Partial<PlagiarismConfig> argument in which a key may be present with the
\* value undefined: values holds the keys given a value, undefinedKeys the
\* keys given as undefined.  A field of a configuration that holds undefined
\* is modelled as a field the record lacks: reading either gives undefined.
PartialArg(values, undefinedKeys) ==
    [values |-> values, undefinedKeys |-> undefinedKeys]

\* new PlagiarismDetector(arg): config.field ?? default gives a field given
\* as undefined its default, as it does a field that was not given
NewDetectorFrom(arg) == NewDetector(arg.values)

\* updateConfig(newConfig): this.config = { ...this.config, ...newConfig };
\* the spread copies every key newConfig has, a key given as undefined too
updateConfig(cfg, newConfig) ==
    LET keys == (DOMAIN cfg \cup DOMAIN newConfig.values) \ newConfig.undefinedKeys
    IN  [f \in keys |->
            IF f \in DOMAIN newConfig.values THEN newConfig.values[f] ELSE cfg[f]]

\* getConfig(): { ...this.config }, a new object with the same fields
getConfig(cfg) == [f \in DOMAIN cfg |-> cfg[f]]

(***************************************************************************)
(* Callers.  call is the invocation in progress or last made, ret what it  *)
(* returned; docs are the fingerprints the caller of a detector holds.     *)
(***************************************************************************)
NoCall == [op |-> "none"]

\* no value returned yet
Pending == [done |-> FALSE]

\* the call returned v
Returned(v) == [done |-> TRUE, value |-> v]

\* the call threw new Error(message)
Thrown(message) == [done |-> TRUE, error |-> message]

(***************************************************************************)
(* SpecHash: one call of fnvHash on a bounded string.                      *)
(***************************************************************************)
HashChars == {"a", "b", "z", "A", " ", "."}

HashInit ==
    /\ config = DefaultConfig
    /\ docs = << >>
    /\ call \in { [op |-> "fnvHash", str |-> str] :
                    str \in SeqsUpTo(HashChars, MaxHashLen) }
    /\ ret = Pending

ReturnFnvHash ==
    /\ call.op = "fnvHash"
    /\ ~ret.done
    /\ ret' = Returned(fnvHash(call.str))
    /\ UNCHANGED <<config, docs, call>>

HashNext == ReturnFnvHash

SpecHash == HashInit /\ [][HashNext]_vars

(***************************************************************************)
(* SpecSets: one call of a SimilarityEngine method on two bounded sets.    *)
(***************************************************************************)
Items == 1..MaxItems

SetOps == {"computeJaccardSimilarity", "computeOverlapCoefficient",
           "computeCosineSimilarity", "computeDiceCoefficient",
           "intersection", "difference", "computeAllSimilarities"}

SetsInit ==
    /\ config = DefaultConfig
    /\ docs = << >>
    /\ call \in { [op |-> o, set1 |-> A, set2 |-> B] :
                    o \in SetOps, A \in SUBSET Items, B \in SUBSET Items }
    /\ ret = Pending

ReturnJaccard ==
    /\ call.op = "computeJaccardSimilarity"
    /\ ~ret.done
    /\ ret' = Returned(computeJaccardSimilarity(call.set1, call.set2))
    /\ UNCHANGED <<config, docs, call>>

ReturnOverlap ==
    /\ call.op = "computeOverlapCoefficient"
    /\ ~ret.done
    /\ ret' = Returned(computeOverlapCoefficient(call.set1, call.set2))
    /\ UNCHANGED <<config, docs, call>>

ReturnCosine ==
    /\ call.op = "computeCosineSimilarity"
    /\ ~ret.done
    /\ ret' = Returned(computeCosineSimilarity(call.set1, call.set2))
    /\ UNCHANGED <<config, docs, call>>

ReturnDice ==
    /\ call.op = "computeDiceCoefficient"
    /\ ~ret.done
    /\ ret' = Returned(computeDiceCoefficient(call.set1, call.set2))
    /\ UNCHANGED <<config, docs, call>>

ReturnIntersection ==
    /\ call.op = "intersection"
    /\ ~ret.done
    /\ ret' = Returned(intersection(call.set1, call.set2))
    /\ UNCHANGED <<config, docs, call>>

ReturnDifference ==
    /\ call.op = "difference"
    /\ ~ret.done
    /\ ret' = Returned(difference(call.set1, call.set2))
    /\ UNCHANGED <<config, docs, call>>

ReturnAllSimilarities ==
    /\ call.op = "computeAllSimilarities"
    /\ ~ret.done
    /\ ret' = Returned(computeAllSimilarities(call.set1, call.set2))
    /\ UNCHANGED <<config, docs, call>>

SetsNext ==
    \/ ReturnJaccard
    \/ ReturnOverlap
    \/ ReturnCosine
    \/ ReturnDice
    \/ ReturnIntersection
    \/ ReturnDifference
    \/ ReturnAllSimilarities

SpecSets == SetsInit /\ [][SetsNext]_vars

(***************************************************************************)
(* SpecText: one call of a TextPreprocessor method on a bounded text.      *)
(***************************************************************************)
TextChars == {"a", "B", "_", " ", "\t", "."}

\* the documents of the scenarios, and two that normalisation changes
ScenarioTexts ==
    { << "t","h","e"," ","c","a","t"," ","s","a","t"," ","o","n"," ",
         "t","h","e"," ","m","a","t" >>,
      << "a","b","c","d","e","f","g","h" >>,
      << "z","z","z","z","z","z","z","z" >>,
      << "A", ".", "b" >>,
      << "!", "\t" >> }

Texts == SeqsUpTo(TextChars, MaxTextLen) \cup ScenarioTexts

TextInit ==
    /\ config = DefaultConfig
    /\ docs = << >>
    /\ call \in { [op |-> o, text |-> t] :
                    o \in {"normalize", "tokenize", "removeStopWords"}, t \in Texts }
               \cup { [op |-> o, text |-> t, size |-> n] :
                    o \in {"generateKGrams", "generateWordNGrams"}, t \in Texts,
                    n \in 1..MaxGram }
    /\ ret = Pending

ReturnNormalize ==
    /\ call.op = "normalize"
    /\ ~ret.done
    /\ ret' = Returned(normalize(call.text))
    /\ UNCHANGED <<config, docs, call>>

ReturnTokenize ==
    /\ call.op = "tokenize"
    /\ ~ret.done
    /\ ret' = Returned(tokenize(call.text))
    /\ UNCHANGED <<config, docs, call>>

ReturnRemoveStopWords ==
    /\ call.op = "removeStopWords"
    /\ ~ret.done
    /\ ret' = Returned(removeStopWords(call.text))
    /\ UNCHANGED <<config, docs, call>>

ReturnGenerateKGrams ==
    /\ call.op = "generateKGrams"
    /\ ~ret.done
    /\ ret' = Returned(generateKGrams(call.text, call.size))
    /\ UNCHANGED <<config, docs, call>>

ReturnGenerateWordNGrams ==
    /\ call.op = "generateWordNGrams"
    /\ ~ret.done
    /\ ret' = Returned(generateWordNGrams(call.text, call.size))
    /\ UNCHANGED <<config, docs, call>>

TextNext ==
    \/ ReturnNormalize
    \/ ReturnTokenize
    \/ ReturnRemoveStopWords
    \/ ReturnGenerateKGrams
    \/ ReturnGenerateWordNGrams

SpecText == TextInit /\ [][TextNext]_vars

(***************************************************************************)
(* SpecClassify: one call of classifySimilarity on a score in [0, 1].      *)
(***************************************************************************)
\* the fractions n / d with 0 <= n <= d <= MaxDen
Scores == UNION { { Quot(n, d) : n \in 0..d } : d \in 1..MaxDen }

ClassifyInit ==
    /\ config = DefaultConfig
    /\ docs = << >>
    /\ call \in { [op |-> "classifySimilarity", similarity |-> x] : x \in Scores }
    /\ ret = Pending

ReturnClassify ==
    /\ call.op = "classifySimilarity"
    /\ ~ret.done
    /\ ret' = Returned(classifySimilarity(call.similarity))
    /\ UNCHANGED <<config, docs, call>>

ClassifyNext == ReturnClassify

SpecClassify == ClassifyInit /\ [][ClassifyNext]_vars

(***************************************************************************)
(* The operations of a detector and its caller.                            *)
(***************************************************************************)
\* new PlagiarismDetector(partial), the caller holding no fingerprint yet
Construct(partial) ==
    /\ config = NewDetector(partial)
    /\ docs = << >>
    /\ call = NoCall
    /\ ret = Pending

\* the caller fingerprints a document and keeps the fingerprint
CreateDocumentFingerprint(documentId, documentName, content) ==
    /\ docs' = Append(docs,
                 createDocumentFingerprint(config, documentId, documentName, content))
    /\ call' = [op |-> "createDocumentFingerprint", content |-> content]
    /\ ret' = Returned(Len(docs) + 1)
    /\ UNCHANGED config

\* the caller compares two fingerprints it holds
CompareDocuments(i, j, threshold) ==
    /\ call' = [op |-> "compareDocuments", doc1 |-> i, doc2 |-> j,
                threshold |-> threshold]
    /\ ret' = Returned(compareDocuments(docs[i], docs[j], threshold))
    /\ docs' = LET after == argumentsAfterCompareDocuments(docs[i], docs[j])
               IN  [n \in 1..Len(docs) |->
                       IF n = i THEN after[1] ELSE IF n = j THEN after[2] ELSE docs[n]]
    /\ UNCHANGED config

\* the caller compares one fingerprint it holds against all it holds
CompareAgainstMultiple(t, threshold) ==
    /\ call' = [op |-> "compareAgainstMultiple", target |-> t,
                threshold |-> threshold]
    /\ ret' = Returned(compareAgainstMultiple(docs[t], docs, threshold))
    /\ docs' = documentsAfterCompareAgainstMultiple(docs[t], docs)
    /\ UNCHANGED config

\* the caller compares all the fingerprints it holds (the analyze route)
CompareAll(threshold) ==
    /\ call' = [op |-> "compareAll", threshold |-> threshold]
    /\ ret' = Returned(compareAll(docs, threshold))
    /\ docs' = documentsAfterCompareAll(docs)
    /\ UNCHANGED config

\* the caller changes the configuration of its detector
UpdateConfig(newConfig) ==
    /\ config' = updateConfig(config, newConfig)
    /\ call' = [op |-> "updateConfig", newConfig |-> newConfig]
    /\ ret' = Returned(Undefined)
    /\ UNCHANGED docs

\* the caller asks for the configuration
GetConfig ==
    /\ call' = [op |-> "getConfig"]
    /\ ret' = Returned(getConfig(config))
    /\ UNCHANGED <<config, docs>>

\* the caller assigns to a field of the object getConfig returned, which is
\* not the object the detector holds
ModifyCopy(field, value) ==
    /\ call.op \in {"getConfig", "modifyCopy"}
    /\ call' = [op |-> "modifyCopy", field |-> field, value |-> value]
    /\ ret' = Returned([f \in DOMAIN ret.value \cup {field} |->
                          IF f = field THEN value ELSE ret.value[f]])
    /\ UNCHANGED <<config, docs>>

(***************************************************************************)
(* Spec: a detector, two documents fingerprinted by it, and comparisons of *)
(* the two.                                                                *)
(***************************************************************************)
PartialConfigs ==
    { << >>,
      [kGramSize |-> 1],
      [kGramSize |-> 2],
      [kGramSize |-> 3],
      [kGramSize |-> 1, useWinnowing |-> TRUE, winnowingWindowSize |-> 2],
      [kGramSize |-> 1, useWinnowing |-> TRUE, winnowingWindowSize |-> 3],
      [useWordNGrams |-> TRUE, wordNGramSize |-> 1],
      [kGramSize |-> 1, removeStopWords |-> TRUE],
      [kGramSize |-> 2, removeStopWords |-> TRUE] }

DocChars == {"a", "b", " "}

Contents == SeqsUpTo(DocChars, MaxLen) \cup ScenarioTexts

PairIds == << "d1", "d2" >>

Thresholds == { Undefined, Quot(0, 1), Quot(1, 3), Quot(1, 1) }

Init == \E partial \in PartialConfigs : Construct(partial)

Next ==
    \/ /\ Len(docs) < Len(PairIds)
       /\ \E content \in Contents :
            CreateDocumentFingerprint(PairIds[Len(docs) + 1], "doc", content)
    \/ \E i \in 1..Len(docs), j \in 1..Len(docs), threshold \in Thresholds :
            i < j /\ CompareDocuments(i, j, threshold)

Spec == Init /\ [][Next]_vars

(***************************************************************************)
(* SpecBatch: a detector with shingle size 1, up to MaxDocs documents, and *)
(* the comparisons of them, pairwise and in batches.                       *)
(***************************************************************************)
BatchContents == { << >>, << "a" >>, << "a", "b" >>, << "a", "b", "c" >> }

BatchIds == { "d1", "d2" }

BatchThresholds == { Undefined, Quot(1, 3) }

BatchInit == Construct([kGramSize |-> 1])

BatchNext ==
    \/ /\ Len(docs) < MaxDocs
       /\ \E id \in BatchIds, content \in BatchContents :
            CreateDocumentFingerprint(id, "doc" \o ToString(Len(docs) + 1), content)
    \/ \E threshold \in BatchThresholds : CompareAll(threshold)
    \/ \E t \in 1..Len(docs), threshold \in BatchThresholds :
            CompareAgainstMultiple(t, threshold)
    \/ \E i \in 1..Len(docs), j \in 1..Len(docs), threshold \in BatchThresholds :
            i < j /\ CompareDocuments(i, j, threshold)

SpecBatch == BatchInit /\ [][BatchNext]_vars

(***************************************************************************)
(* SpecWinnow: a detector in character mode with winnowing on, and two     *)
(* documents fingerprinted by it.                                          *)
(***************************************************************************)
WinChars == {"a", "B"}

WinnowInit ==
    \E k \in 1..MaxK, w \in 1..MaxW :
        Construct([kGramSize |-> k, useWinnowing |-> TRUE, winnowingWindowSize |-> w])

WinnowNext ==
    /\ Len(docs) < Len(PairIds)
    /\ \E content \in SeqsUpTo(WinChars, MaxWinLen) :
         CreateDocumentFingerprint(PairIds[Len(docs) + 1], "doc", content)

SpecWinnow == WinnowInit /\ [][WinnowNext]_vars

(***************************************************************************)
(* SpecCommon: a detector in character mode, two documents that are short  *)
(* or have more than a hundred shingles in common, and their comparison.   *)
(***************************************************************************)
\* every pair of the letters a..k once, then the first three pairs again
LongTextA ==
    <<
       "a", "k", "k", "j", "k", "i", "k", "h", "k", "g", "k", "f", "k",
       "e", "k", "d", "k", "c", "k", "b", "k", "a", "j", "j", "i", "j",
       "h", "j", "g", "j", "f", "j", "e", "j", "d", "j", "c", "j", "b",
       "j", "a", "i", "i", "h", "i", "g", "i", "f", "i", "e", "i", "d",
       "i", "c", "i", "b", "i", "a", "h", "h", "g", "h", "f", "h", "e",
       "h", "d", "h", "c", "h", "b", "h", "a", "g", "g", "f", "g", "e",
       "g", "d", "g", "c", "g", "b", "g", "a", "f", "f", "e", "f", "d",
       "f", "c", "f", "b", "f", "a", "e", "e", "d", "e", "c", "e", "b",
       "e", "a", "d", "d", "c", "d", "b", "d", "a", "c", "c", "b", "c",
       "a", "b", "b", "a", "a", "k", "k", "j" >>

LongTextB ==
    <<
       "d", "k", "c", "k", "b", "k", "a", "j", "j", "i", "j", "h", "j",
       "g", "j", "f", "j", "e", "j", "d", "j", "c", "j", "b", "j", "a",
       "i", "i", "h", "i", "g", "i", "f", "i", "e", "i", "d", "i", "c",
       "i", "b", "i", "a", "h", "h", "g", "h", "f", "h", "e", "h", "d",
       "h", "c", "h", "b", "h", "a", "g", "g", "f", "g", "e", "g", "d",
       "g", "c", "g", "b", "g", "a", "f", "f", "e", "f", "d", "f", "c",
       "f", "b", "f", "a", "e", "e", "d", "e", "c", "e", "b", "e", "a",
       "d", "d", "c", "d", "b", "d", "a", "c", "c", "b", "c", "a", "b",
       "b", "a", "a", "a", "k", "k", "j", "k", "i", "k", "h" >>

CommonContents == SeqsUpTo({"a", "b"}, MaxCommonLen) \cup {LongTextA, LongTextB}

CommonInit == \E k \in {1, 2} : Construct([kGramSize |-> k])

CommonNext ==
    \/ /\ Len(docs) < Len(PairIds)
       /\ \E content \in CommonContents :
            CreateDocumentFingerprint(PairIds[Len(docs) + 1], "doc", content)
    \/ \E i \in 1..Len(docs), j \in 1..Len(docs) :
            i < j /\ CompareDocuments(i, j, Undefined)

SpecCommon == CommonInit /\ [][CommonNext]_vars

(***************************************************************************)
(* HashingEngine.estimateSimilarityFromMinHash, and SpecMinHash: one call  *)
(* of it on two bounded signatures.                                        *)
(***************************************************************************)
\* mutant: no length check, the positions both signatures have are compared
estimateSimilarityFromMinHash_Truncating(sig1, sig2) ==
    LET matches == Cardinality({ i \in 1..Min2(Len(sig1), Len(sig2)) : sig1[i] = sig2[i] })
    IN  Returned(Quot(matches, Len(sig1)))

estimateSimilarityFromMinHash(sig1, sig2) ==
    IF Len(sig1) # Len(sig2) THEN Thrown("Signatures must have same length")
    ELSE LET matches == Cardinality({ i \in 1..Len(sig1) : sig1[i] = sig2[i] })
         IN  Returned(Quot(matches, Len(sig1)))

\* the entries of a signature: hash values
SigValues == { << 0, 1 >>, << 0, 2 >>, << 65535, 65535 >> }

MinHashInit ==
    /\ config = DefaultConfig
    /\ docs = << >>
    /\ call \in { [op |-> "estimateSimilarityFromMinHash", sig1 |-> s1, sig2 |-> s2] :
                    s1 \in SeqsUpTo(SigValues, MaxSigLen),
                    s2 \in SeqsUpTo(SigValues, MaxSigLen) }
    /\ ret = Pending

ReturnEstimate ==
    /\ call.op = "estimateSimilarityFromMinHash"
    /\ ~ret.done
    /\ ret' = estimateSimilarityFromMinHash(call.sig1, call.sig2)
    /\ UNCHANGED <<config, docs, call>>

MinHashNext == ReturnEstimate

SpecMinHash == MinHashInit /\ [][MinHashNext]_vars

(***************************************************************************)
(* SpecSizes: detectors constructed with a size of -1, 0 or 1 for the      *)
(* shingles or the winnowing window, and the documents they fingerprint.   *)
(***************************************************************************)
SizeConfigs ==
    { [kGramSize |-> k] : k \in {-1, 0, 1} }
      \cup { [useWordNGrams |-> TRUE, wordNGramSize |-> n] : n \in {-1, 0, 1} }
      \cup { [kGramSize |-> 1, useWinnowing |-> TRUE, winnowingWindowSize |-> w] :
                w \in {-1, 0, 1} }

SizesInit == \E partial \in SizeConfigs : Construct(partial)

SizesNext ==
    /\ Len(docs) < Len(PairIds)
    /\ \E content \in SeqsUpTo(DocChars, MaxLen) :
         CreateDocumentFingerprint(PairIds[Len(docs) + 1], "doc", content)

SpecSizes == SizesInit /\ [][SizesNext]_vars

(***************************************************************************)
(* SpecConfig: a detector constructed with a partial config, a document    *)
(* fingerprinted by it, and updateConfig and getConfig calls.              *)
(***************************************************************************)
ConfigValues ==
    { << >>, [kGramSize |-> 2],
      [useWinnowing |-> TRUE, winnowingWindowSize |-> 2],
      [kGramSize |-> 1, removeStopWords |-> TRUE] }

ConfigUndefinedKeys == { {}, {"kGramSize"}, {"useWordNGrams"} }

ConfigArgs ==
    { arg \in { PartialArg(values, undefinedKeys) :
                  values \in ConfigValues, undefinedKeys \in ConfigUndefinedKeys } :
        arg.undefinedKeys \cap DOMAIN arg.values = {} }

ConfigInit ==
    \E arg \in ConfigArgs :
        /\ config = NewDetectorFrom(arg)
        /\ docs = << >>
        /\ call = [op |-> "constructor", config |-> arg]
        /\ ret = Pending

\* the document is fingerprinted while every field of the configuration
\* holds a value
ConfigNext ==
    \/ /\ docs = << >>
       /\ DOMAIN config = DOMAIN DefaultConfig
       /\ \E content \in { << "a" >>, << "a", "b" >> } :
            CreateDocumentFingerprint("d1", "doc", content)
    \/ \E newConfig \in ConfigArgs : UpdateConfig(newConfig)
    \/ GetConfig
    \/ \E value \in {7} : ModifyCopy("kGramSize", value)

SpecConfig == ConfigInit /\ [][ConfigNext]_vars

(***************************************************************************)
(* Properties.                                                             *)
(***************************************************************************)
\* the fraction x has the value n / d
FracIs(x, n, d) == x.den > 0 /\ x.num * d = n * x.den

\* C1: computeJaccardSimilarity returns 1.0 for two empty sets and otherwise
\* exactly |A \cap B| / |A \cup B|, hence 0 when exactly one set is empty or
\* the sets are disjoint.
C1_JaccardFormula ==
    (call.op = "computeJaccardSimilarity" /\ ret.done) =>
        LET A == call.set1
            B == call.set2
        IN  /\ (A = {} /\ B = {}) => FracIs(ret.value, 1, 1)
            /\ ~(A = {} /\ B = {}) =>
                   FracIs(ret.value, Cardinality(A \cap B), Cardinality(A \cup B))
            /\ (((A = {}) # (B = {})) \/ (A \cap B = {} /\ A \cup B # {})) =>
                   FracIs(ret.value, 0, 1)

C1_Witness ==
    /\ call.op = "computeJaccardSimilarity"
    /\ ret.done
    /\ Cardinality(call.set1) > Cardinality(call.set2)
    /\ call.set2 \ call.set1 # {}
    /\ FracIs(ret.value, 1, 4)

\* C2: computeOverlapCoefficient and computeCosineSimilarity return 0 when at
\* least one set is empty (also when both are), and otherwise
\* |A \cap B| / min(|A|, |B|) and |A \cap B| / sqrt(|A| * |B|).
C2_OverlapCosineFormula ==
    LET A == call.set1
        B == call.set2
    IN  /\ (call.op = "computeOverlapCoefficient" /\ ret.done) =>
               IF A = {} \/ B = {} THEN FracIs(ret.value, 0, 1)
               ELSE FracIs(ret.value, Cardinality(A \cap B),
                           IF Cardinality(A) <= Cardinality(B)
                           THEN Cardinality(A) ELSE Cardinality(B))
        /\ (call.op = "computeCosineSimilarity" /\ ret.done) =>
               IF A = {} \/ B = {} THEN ret.value.num = 0 /\ ret.value.radicand > 0
               ELSE /\ ret.value.radicand > 0
                    /\ ret.value.num * ret.value.num * Cardinality(A) * Cardinality(B)
                         = Cardinality(A \cap B) * Cardinality(A \cap B) * ret.value.radicand

C2_Witness ==
    /\ call.op = "computeCosineSimilarity"
    /\ ret.done
    /\ Cardinality(call.set1) < Cardinality(call.set2)
    /\ call.set1 \ call.set2 # {}
    /\ ret.value.num > 0

\* the bits of a natural below 65536, as the set of their positions
BitsOf(n) == { i \in 0..15 : (n \div (2 ^ i)) % 2 = 1 }

RECURSIVE FromBits(_)
FromBits(S) ==
    IF S = {} THEN 0
    ELSE LET i == CHOOSE x \in S : TRUE IN (2 ^ i) + FromBits(S \ {i})

\* ((h XOR code) * 16777619) mod 2^32 on an unsigned h = <<hi, lo>>, with
\* 16777619 = 2^24 + 403
Fnv1aTurn(h, code) ==
    LET lo == FromBits((BitsOf(Lo(h)) \ BitsOf(code)) \cup (BitsOf(code) \ BitsOf(Lo(h))))
        low == lo * 403
    IN  << (Hi(h) * 403 + (low \div 65536) + (lo % 256) * 256) % 65536,
           low % 65536 >>

RECURSIVE Fnv1aFold(_, _)
\* the values h0, ..., hn of the 32-bit FNV-1a fold over the first n codes
Fnv1aFold(str, n) ==
    IF n = 0 THEN << << 33052, 40389 >> >>
    ELSE LET before == Fnv1aFold(str, n - 1)
         IN  Append(before, Fnv1aTurn(before[n], CharCodeAt(str[n])))

\* C10: fnvHash(s) is the 32-bit FNV-1a fold over the character codes of s,
\* an integer in [0, 2^32), and fnvHash("") = 2166136261.
C10_FnvHashIsFnv1a ==
    (call.op = "fnvHash" /\ ret.done) =>
        /\ ret.value = Fnv1aFold(call.str, Len(call.str))[Len(call.str) + 1]
        /\ Hi(ret.value) \in 0..65535
        /\ Lo(ret.value) \in 0..65535
        /\ (call.str = << >> => ret.value = << 33052, 40389 >>)

\* "a" hashes to 0xe40c292c, which the loop holds as a negative int32
C10_Witness ==
    /\ call.op = "fnvHash"
    /\ call.str = << "a" >>
    /\ ret = Returned(<< 58380, 10540 >>)
    /\ Hi(FnvTrace(call.str, 1)[2]) < 0

\* the threshold a comparison call works with
ThresholdOf(c) == IF c.threshold = Undefined THEN Quot(1, 2) ELSE c.threshold

\* the band of a score n / d, by the cutoffs 0.8, 0.6, 0.4, 0.2
BandOf(x) ==
    CASE 5 * x.num >= 4 * x.den -> "very-high"
      [] 5 * x.num < 4 * x.den /\ 5 * x.num >= 3 * x.den -> "high"
      [] 5 * x.num < 3 * x.den /\ 5 * x.num >= 2 * x.den -> "medium"
      [] 5 * x.num < 2 * x.den /\ 5 * x.num >= x.den -> "low"
      [] 5 * x.num < x.den -> "none"

\* C3: two fingerprints a detector created from the same content compare
\* with jaccard 1.0, percentage 100, level 'very-high' and, for every
\* threshold <= 1, isPlagiarized; so jaccard(A, A) = 1.0, A empty or not.
C3_SameContentIdentical ==
    (call.op = "compareDocuments"
       /\ docs[call.doc1].content = docs[call.doc2].content) =>
        /\ docs[call.doc1].fingerprints = docs[call.doc2].fingerprints
        /\ FracIs(ret.value.similarity.jaccardSimilarity, 1, 1)
        /\ FracIs(ret.value.similarityPercentage, 100, 1)
        /\ ret.value.classification.level = "very-high"
        /\ (ThresholdOf(call).num <= ThresholdOf(call).den => ret.value.isPlagiarized)

\* "the cat sat on the mat" twice with k = 5, no winnowing, threshold 0.5
C3_Witness ==
    /\ call.op = "compareDocuments"
    /\ call.doc1 # call.doc2
    /\ call.threshold = Undefined
    /\ config.kGramSize = 5 /\ ~config.useWinnowing /\ ~config.useWordNGrams
    /\ docs[1].content = docs[2].content
    /\ Len(docs[1].content) = 22
    /\ Cardinality(docs[1].fingerprints) > 1
    /\ ret.value.isPlagiarized
    /\ ret.value.classification.level = "very-high"

\* the shingle size of the mode the detector is in
ShingleSize(cfg) == IF cfg.useWordNGrams THEN cfg.wordNGramSize ELSE cfg.kGramSize

\* the content's normalized length is below the shingle size
TooShort(cfg, d) == Len(normalize(d.content)) < ShingleSize(cfg)

\* C4: content whose normalized length is below the shingle size yields an
\* empty shingle sequence and an empty fingerprint set; two such fingerprints
\* compare with jaccard 1.0, overlap 0 and cosine 0; and no comparison
\* divides by zero.
C4_ShortContentNotAnError ==
    /\ \A i \in 1..Len(docs) :
          TooShort(config, docs[i]) =>
              docs[i].kGrams = << >> /\ docs[i].fingerprints = {}
    /\ call.op = "compareDocuments" =>
          /\ ret.value.similarity.jaccardSimilarity.den # 0
          /\ ret.value.similarity.overlapCoefficient.den # 0
          /\ ret.value.similarity.cosineSimilarity.radicand # 0
          /\ ret.value.similarityPercentage.den # 0
          /\ (TooShort(config, docs[call.doc1]) /\ TooShort(config, docs[call.doc2])) =>
                /\ FracIs(ret.value.similarity.jaccardSimilarity, 1, 1)
                /\ FracIs(ret.value.similarity.overlapCoefficient, 0, 1)
                /\ ret.value.similarity.cosineSimilarity.num = 0

\* two different non-empty contents, both shorter than k = 5
C4_Witness ==
    /\ call.op = "compareDocuments"
    /\ call.doc1 = 1 /\ call.doc2 = 2
    /\ config.kGramSize = 5 /\ ~config.useWordNGrams
    /\ docs[1].content = << "a", "b" >>
    /\ docs[2].content = << "b" >>
    /\ docs[1].fingerprints = {} /\ docs[2].fingerprints = {}
    /\ FracIs(ret.value.similarity.jaccardSimilarity, 1, 1)

\* C5: compareDocuments sets similarityPercentage = jaccard * 100, classifies
\* the jaccard score, flags exactly when jaccard >= threshold (equality
\* included), and takes 0.5 for an omitted threshold.
C5_VerdictFromJaccard ==
    call.op = "compareDocuments" =>
        LET jaccard == ret.value.similarity.jaccardSimilarity
            threshold == ThresholdOf(call)
        IN  /\ jaccard.den > 0
            /\ FracIs(ret.value.similarityPercentage, 100 * jaccard.num, jaccard.den)
            /\ ret.value.classification.level = BandOf(jaccard)
            /\ ret.value.isPlagiarized <=>
                   (jaccard.num * threshold.den >= threshold.num * jaccard.den)
            /\ (call.threshold = Undefined =>
                   (ret.value.isPlagiarized <=> 2 * jaccard.num >= jaccard.den))

\* a score equal to the threshold 1/3, below every cutoff of cosine and overlap
C5_Witness ==
    /\ call.op = "compareDocuments"
    /\ call.threshold = Quot(1, 3)
    /\ FracIs(ret.value.similarity.jaccardSimilarity, 1, 3)
    /\ FracIs(ret.value.similarity.overlapCoefficient, 1, 1)
    /\ ret.value.classification.level = "low"
    /\ ret.value.isPlagiarized

\* the results are in non-increasing order of similarityPercentage
NonIncreasing(results) ==
    \A r \in 1..(Len(results) - 1) :
        results[r].similarityPercentage.num * results[r + 1].similarityPercentage.den
          >= results[r + 1].similarityPercentage.num * results[r].similarityPercentage.den

\* the places of results that pair the documents named a and b, in this order
PlacesOf(results, a, b) ==
    { r \in 1..Len(results) : results[r].doc1.name = a /\ results[r].doc2.name = b }

\* what a result puts in doc1 or doc2 for the fingerprint d
Identity(d) == [id |-> d.documentId, name |-> d.documentName]

\* the result is the comparison of the fingerprints d1 and d2
IsComparisonOf(result, d1, d2, threshold) ==
    /\ result.doc1 = Identity(d1)
    /\ result.doc2 = Identity(d2)
    /\ FracIs(result.similarity.jaccardSimilarity,
              IF d1.fingerprints \cup d2.fingerprints = {} THEN 1
              ELSE Cardinality(d1.fingerprints \cap d2.fingerprints),
              IF d1.fingerprints \cup d2.fingerprints = {} THEN 1
              ELSE Cardinality(d1.fingerprints \cup d2.fingerprints))
    /\ result.isPlagiarized <=>
          (result.similarity.jaccardSimilarity.num * threshold.den
             >= threshold.num * result.similarity.jaccardSimilarity.den)

\* C6: compareAll on n fingerprints returns n*(n-1)/2 results, one for each
\* index pair i < j (doc1 the earlier, doc2 the later) and no other, each
\* flagged exactly when jaccard >= threshold, in non-increasing order of
\* similarityPercentage; none for n = 0 or 1.
C6_CompareAllPairs ==
    call.op = "compareAll" =>
        LET n == Len(docs)
            results == ret.value
        IN  /\ Len(results) = (n * (n - 1)) \div 2
            /\ \A i \in 1..n, j \in 1..n :
                  LET places == PlacesOf(results, docs[i].documentName, docs[j].documentName)
                  IN  IF i < j
                      THEN /\ Cardinality(places) = 1
                           /\ \A r \in places :
                                IsComparisonOf(results[r], docs[i], docs[j], ThresholdOf(call))
                      ELSE places = {}
            /\ NonIncreasing(results)
            /\ (n <= 1 => results = << >>)

\* three documents whose most similar pair is not the first the loops visit
C6_Witness ==
    /\ call.op = "compareAll"
    /\ Len(docs) = 3
    /\ Len(ret.value) = 3
    /\ ret.value[1].doc1.name = "doc2"
    /\ ret.value[1].doc2.name = "doc3"
    /\ ~FracIs(ret.value[3].similarityPercentage, ret.value[1].similarityPercentage.num,
               ret.value[1].similarityPercentage.den)

\* C7: compareAgainstMultiple returns one result for each document whose
\* documentId differs from the target's and none for a document with the
\* target's id; doc1 is the target in every result; the list is in
\* non-increasing order of similarityPercentage.
C7_CompareAgainstMultiple ==
    call.op = "compareAgainstMultiple" =>
        LET target == docs[call.target]
            results == ret.value
            others == { i \in 1..Len(docs) : docs[i].documentId # target.documentId }
        IN  /\ Len(results) = Cardinality(others)
            /\ \A r \in 1..Len(results) : results[r].doc1 = Identity(target)
            /\ \A i \in 1..Len(docs) :
                  LET places == { r \in 1..Len(results) :
                                    results[r].doc2.name = docs[i].documentName }
                  IN  IF i \in others
                      THEN /\ Cardinality(places) = 1
                           /\ \A r \in places :
                                IsComparisonOf(results[r], target, docs[i], ThresholdOf(call))
                      ELSE places = {}
            /\ NonIncreasing(results)

\* the target is the last of three documents and the sort moved the later
\* of the other two to the front
C7_Witness ==
    /\ call.op = "compareAgainstMultiple"
    /\ call.target = 3
    /\ Len(docs) = 3
    /\ Len(ret.value) = 2
    /\ ret.value[1].doc2.name = "doc2"
    /\ ~FracIs(ret.value[2].similarityPercentage, ret.value[1].similarityPercentage.num,
               ret.value[1].similarityPercentage.den)

\* the winnowing window size and the character shingle size of the detector
WindowSize == config.winnowingWindowSize

\* the two shingle sequences have a common run of len shingles
SharedRun(g1, g2, len) ==
    \E i \in 0..(Len(g1) - len), j \in 0..(Len(g2) - len) :
        \A t \in 1..len : g1[i + t] = g2[j + t]

\* the two texts have a common substring of len characters
SharedSubstring(t1, t2, len) ==
    \E i \in 1..(Len(t1) - len + 1), j \in 1..(Len(t2) - len + 1) :
        SubSeq(t1, i, i + len - 1) = SubSeq(t2, j, j + len - 1)

\* C8: with winnowing on and window size w >= 1, two shingle sequences with
\* a common run of w shingles get winnowed fingerprint sets with a common
\* value; and in character mode with shingle size k, two documents whose
\* preprocessed texts have a common substring of w + k - 1 characters get
\* fingerprint sets that intersect.
C8_WinnowingGuarantee ==
    (Len(docs) = 2 /\ config.useWinnowing /\ ~config.useWordNGrams /\ WindowSize >= 1) =>
        LET common == docs[1].fingerprints \cap docs[2].fingerprints
        IN  /\ SharedRun(docs[1].kGrams, docs[2].kGrams, WindowSize)
                 => (/\ generateWinnowingFingerprints(docs[1].kGrams, WindowSize)
                          \cap generateWinnowingFingerprints(docs[2].kGrams, WindowSize) # {}
                     /\ common # {})
            /\ SharedSubstring(docs[1].preprocessedText, docs[2].preprocessedText,
                               WindowSize + config.kGramSize - 1)
                 => common # {}

\* two different documents with a common run of w >= 2 shingles, whose
\* fingerprint sets intersect without being equal
C8_Witness ==
    /\ Len(docs) = 2
    /\ WindowSize >= 2
    /\ config.kGramSize >= 2
    /\ docs[1].preprocessedText # docs[2].preprocessedText
    /\ docs[1].content # docs[1].preprocessedText
    /\ SharedRun(docs[1].kGrams, docs[2].kGrams, WindowSize)
    /\ docs[1].fingerprints \cap docs[2].fingerprints # {}
    /\ docs[1].fingerprints # docs[2].fingerprints

\* the least of the hashes h[from + 1], ..., h[from + len]
LeastOf(h, from, len) ==
    CHOOSE m \in { h[t] : t \in (from + 1)..(from + len) } :
        \A t \in (from + 1)..(from + len) : ~NumLess(h[t], m)

\* C9: with winnowing on and window size w >= 1, the fingerprints of a
\* shingle sequence of length n are exactly the set of the minima
\* min(h[i..i+w-1]) for 0 <= i <= n - w, h being the hashes of the shingles
\* in shingle order; an empty shingle sequence gives the empty set; and the
\* hashes 15, 1, 17, 19, 8, 11 with w = 3 select 1 and 8.
C9_WinnowingWindowMinima ==
    /\ (config.useWinnowing /\ WindowSize >= 1) =>
          \A d \in 1..Len(docs) :
             LET h == [t \in 1..Len(docs[d].kGrams) |-> fnvHash(docs[d].kGrams[t])]
                 n == Len(h)
             IN  /\ docs[d].fingerprints = { LeastOf(h, i, WindowSize) : i \in 0..(n - WindowSize) }
                 /\ (n = 0 => docs[d].fingerprints = {})
    /\ WinnowHashes(<< <<0, 15>>, <<0, 1>>, <<0, 17>>, <<0, 19>>, <<0, 8>>, <<0, 11>> >>, 3)
          = { <<0, 1>>, <<0, 8>> }

\* a document with more windows than fingerprints and more than one
\* fingerprint, and a document with no shingle
C9_Witness ==
    /\ Len(docs) = 2
    /\ WindowSize >= 2
    /\ docs[1].kGrams = << >>
    /\ docs[1].fingerprints = {}
    /\ Cardinality(docs[2].fingerprints) >= 2
    /\ Len(docs[2].kGrams) - WindowSize + 1 > Cardinality(docs[2].fingerprints)

C12_MetricsSymmetric ==
    ret.done =>
        LET A == call.set1
            B == call.set2
        IN  /\ call.op = "computeJaccardSimilarity"
                 => ret.value = computeJaccardSimilarity(B, A)
            /\ call.op = "computeCosineSimilarity"
                 => ret.value = computeCosineSimilarity(B, A)
            /\ call.op = "computeOverlapCoefficient"
                 => ret.value = computeOverlapCoefficient(B, A)
            /\ call.op = "computeDiceCoefficient"
                 => ret.value = computeDiceCoefficient(B, A)

\* Dice of two overlapping sets of different sizes, neither inside the other
C12_Witness ==
    /\ call.op = "computeDiceCoefficient"
    /\ ret.done
    /\ Cardinality(call.set1) < Cardinality(call.set2)
    /\ call.set1 \ call.set2 # {}
    /\ FracIs(ret.value, 2, 5)

\* C18: intersection(A, B) is exactly the set of the items in both A and B,
\* whichever argument is the smaller, so it equals intersection(B, A);
\* difference(A, B) is exactly the set of the items of A not in B; and
\* |intersection(A, B)| + |difference(A, B)| = |A|.
C18_IntersectionDifference ==
    ret.done =>
        LET A == call.set1
            B == call.set2
        IN  /\ call.op = "intersection"
                 => /\ \A x \in A \cup B : x \in ret.value <=> (x \in A /\ x \in B)
                    /\ ret.value \subseteq A \cup B
                    /\ ret.value = intersection(B, A)
                    /\ Cardinality(ret.value) + Cardinality(difference(A, B))
                          = Cardinality(A)
            /\ call.op = "difference"
                 => /\ \A x \in A \cup B : x \in ret.value <=> (x \in A /\ x \notin B)
                    /\ ret.value \subseteq A \cup B
                    /\ Cardinality(intersection(A, B)) + Cardinality(ret.value)
                          = Cardinality(A)

\* the intersection of two sets of equal size, each with an item of its own
C18_Witness ==
    /\ call.op = "intersection"
    /\ ret.done
    /\ Cardinality(call.set1) = Cardinality(call.set2)
    /\ call.set1 \ call.set2 # {}
    /\ Cardinality(ret.value) = 2

C14_KGramCountAndContent ==
    (call.op = "generateKGrams" /\ ret.done) =>
        LET norm == normalize(call.text)
            L == Len(norm)
            k == call.size
        IN  /\ Len(ret.value) = (IF L - k + 1 > 0 THEN L - k + 1 ELSE 0)
            /\ \A i \in 0..(Len(ret.value) - 1) :
                  /\ Len(ret.value[i + 1]) = k
                  /\ \A c \in 1..k : ret.value[i + 1][c] = norm[i + c]
            /\ (L < k => ret.value = << >>)

\* normalisation changes the text, which then has two different 2-grams
C14_Witness ==
    /\ call.op = "generateKGrams"
    /\ ret.done
    /\ call.size = 2
    /\ call.text # normalize(call.text)
    /\ Len(ret.value) = 2
    /\ ret.value[1] # ret.value[2]

\* the characters of a sequence
CharsOf(word) == { word[i] : i \in 1..Len(word) }

\* C15: tokenize(t) is the sequence of the words of normalize(t) between
\* single spaces, none of zero length (none at all when normalize(t) is
\* empty); generateWordNGrams(t, n), n >= 1, returns max(0, W - n + 1)
\* strings, W being the number of tokens, the i-th being the words
\* i..i+n-1 joined by single spaces.
C15_TokensAndWordNGrams ==
    /\ (call.op = "tokenize" /\ ret.done) =>
          /\ \A i \in 1..Len(ret.value) :
                ret.value[i] # << >> /\ " " \notin CharsOf(ret.value[i])
          /\ Join(ret.value) = normalize(call.text)
          /\ (normalize(call.text) = << >> => ret.value = << >>)
    /\ (call.op = "generateWordNGrams" /\ ret.done) =>
          LET words == tokenize(call.text)
              W == Len(words)
              n == call.size
          IN  /\ Len(ret.value) = (IF W - n + 1 > 0 THEN W - n + 1 ELSE 0)
              /\ \A i \in 0..(Len(ret.value) - 1) :
                    ret.value[i + 1] = Join(SubSeq(words, i + 1, i + n))

\* the five word pairs of a six-word text
C15_Witness ==
    /\ call.op = "generateWordNGrams"
    /\ ret.done
    /\ call.size = 2
    /\ Len(tokenize(call.text)) = 6
    /\ Len(ret.value) = 5
    /\ ret.value[5] = << "t", "h", "e", " ", "m", "a", "t" >>

\* C16: normalize is idempotent and total: normalize(normalize(t)) =
\* normalize(t), normalize("") = "", and the output has only lowercase word
\* characters and single spaces between them, none leading or trailing.
C16_NormalizeIdempotent ==
    (call.op = "normalize" /\ ret.done) =>
        LET r == ret.value
        IN  /\ normalize(r) = r
            /\ (call.text = << >> => r = << >>)
            /\ \A i \in 1..Len(r) :
                  \/ r[i] = " "
                  \/ IsWordChar(r[i]) /\ r[i] \notin Upper
            /\ \A i \in 1..(Len(r) - 1) : ~(r[i] = " " /\ r[i + 1] = " ")
            /\ (r # << >> => (r[1] # " " /\ r[Len(r)] # " "))

\* upper case, punctuation and a tab in, one lowercase word out
C16_Witness ==
    /\ call.op = "normalize"
    /\ ret.done
    /\ call.text = << "B", ".", "\t" >>
    /\ ret.value = << "b" >>

\* the words at the places of a sequence that hold no stop word, in order
WithoutStopWords(words) ==
    LET kept == { i \in 1..Len(words) : words[i] \notin stopWords }
        place(j) == CHOOSE i \in kept : Cardinality({ m \in kept : m < i }) = j - 1
    IN  [j \in 1..Cardinality(kept) |-> words[place(j)]]

\* C17: removeStopWords(t) is the tokens of t in their order, the stop
\* words left out, joined by single spaces; no token of the result is a
\* stop word, and removeStopWords leaves its own result unchanged.
C17_RemoveStopWords ==
    (call.op = "removeStopWords" /\ ret.done) =>
        LET r == ret.value
        IN  /\ r = Join(WithoutStopWords(tokenize(call.text)))
            /\ tokenize(r) = WithoutStopWords(tokenize(call.text))
            /\ \A i \in 1..Len(tokenize(r)) : tokenize(r)[i] \notin stopWords
            /\ removeStopWords(r) = r

\* "the cat sat on the mat" loses "the", "on" and "the"
C17_Witness ==
    /\ call.op = "removeStopWords"
    /\ ret.done
    /\ Len(tokenize(call.text)) = 6
    /\ ret.value = << "c", "a", "t", " ", "s", "a", "t", " ", "m", "a", "t" >>

\* the fields of the similarity bundle other than a Dice coefficient
BundleFields ==
    {"jaccardSimilarity", "cosineSimilarity", "overlapCoefficient",
     "intersectionSize", "unionSize", "set1Size", "set2Size"}

\* the fraction x is 2|A \cap B| / (|A| + |B|), or 1 when both sets are empty
IsDiceOf(x, A, B) ==
    IF A = {} /\ B = {} THEN FracIs(x, 1, 1)
    ELSE FracIs(x, 2 * Cardinality(A \cap B), Cardinality(A) + Cardinality(B))

\* the sizes the bundle b reports for the fingerprint sets A and B
HasSizesOf(b, A, B) ==
    /\ b.intersectionSize = Cardinality(A \cap B)
    /\ b.unionSize = Cardinality(A \cup B)
    /\ b.set1Size = Cardinality(A)
    /\ b.set2Size = Cardinality(B)

\* C19 as stated: the similarity bundle of every ComparisonResult carries
\* four coefficients, Jaccard, cosine, overlap and Dice, with the
\* intersection size, the union size and each set's size, Dice being
\* 2|A \cap B| / (|A| + |B|) and 1.0 when both sets are empty.
C19_BundleHasDice ==
    (call.op = "compareDocuments" /\ ret.done) =>
        LET b == ret.value.similarity
            A == docs[call.doc1].fingerprints
            B == docs[call.doc2].fingerprints
        IN  /\ BundleFields \subseteq DOMAIN b
            /\ HasSizesOf(b, A, B)
            /\ \E f \in DOMAIN b \ BundleFields : IsDiceOf(b[f], A, B)

\* C19, amended: the similarity bundle of every ComparisonResult carries
\* three coefficients, Jaccard, cosine and overlap, with the intersection
\* size, the union size and each set's size, and nothing else; Dice is
\* computed by computeDiceCoefficient alone, as 2|A \cap B| / (|A| + |B|)
\* and 1.0 when both sets are empty.
C19_BundleThreeCoefficients ==
    (call.op = "compareDocuments" /\ ret.done) =>
        LET b == ret.value.similarity
            A == docs[call.doc1].fingerprints
            B == docs[call.doc2].fingerprints
        IN  /\ DOMAIN b = BundleFields
            /\ HasSizesOf(b, A, B)
            /\ b.jaccardSimilarity.den > 0
            /\ b.overlapCoefficient.den > 0
            /\ b.cosineSimilarity.radicand > 0
            /\ IsDiceOf(computeDiceCoefficient(A, B), A, B)

\* a comparison of overlapping fingerprint sets of different sizes
C19_Witness ==
    /\ call.op = "compareDocuments"
    /\ ret.done
    /\ ret.value.similarity.set1Size > ret.value.similarity.set2Size
    /\ ret.value.similarity.intersectionSize >= 1
    /\ ret.value.similarity.unionSize > ret.value.similarity.set1Size

\* the indices (from 0) at which the shingle g occurs in the sequence s
OccurrencesOf(s, g) == { i \in 0..(Len(s) - 1) : s[i + 1] = g }

\* the sequence positions lists exactly the indices of hits in ascending order
ListsAscending(positions, hits) ==
    /\ Len(positions) = Cardinality(hits)
    /\ \A p \in 1..Len(positions) : positions[p] \in hits
    /\ \A p \in 1..(Len(positions) - 1) : positions[p] < positions[p + 1]

\* C20: findCommonKGrams(s1, s2) has exactly one record for each distinct
\* shingle that occurs in both sequences and none for another; positions1
\* and positions2 list every index of the shingle in s1 and in s2, in
\* ascending order; the records are in the order of the shingles' first
\* occurrence in s1; and compareDocuments attaches the first min(100, m) of
\* the m records as commonKGrams.
C20_CommonKGrams ==
    (call.op = "compareDocuments" /\ ret.done) =>
        LET s1 == docs[call.doc1].kGrams
            s2 == docs[call.doc2].kGrams
            records == findCommonKGrams(s1, s2)
            shared == { s1[i] : i \in 1..Len(s1) } \cap { s2[i] : i \in 1..Len(s2) }
            m == Len(records)
        IN  /\ m = Cardinality(shared)
            /\ \A r \in 1..m : records[r].kgram \in shared
            /\ \A g \in shared :
                  Cardinality({ r \in 1..m : records[r].kgram = g }) = 1
            /\ \A r \in 1..m :
                  /\ ListsAscending(records[r].positions1,
                                    OccurrencesOf(s1, records[r].kgram))
                  /\ ListsAscending(records[r].positions2,
                                    OccurrencesOf(s2, records[r].kgram))
            /\ \A r \in 1..(m - 1) :
                  records[r].positions1[1] < records[r + 1].positions1[1]
            /\ Len(ret.value.commonKGrams) = (IF m < 100 THEN m ELSE 100)
            /\ \A r \in 1..Len(ret.value.commonKGrams) :
                  ret.value.commonKGrams[r] = records[r]

\* more than a hundred common shingles, of which a hundred are attached,
\* the first of them occurring twice in the first document
C20_Witness ==
    /\ call.op = "compareDocuments"
    /\ ret.done
    /\ Len(findCommonKGrams(docs[1].kGrams, docs[2].kGrams)) > 100
    /\ Len(ret.value.commonKGrams) = 100
    /\ Len(ret.value.commonKGrams[1].positions1) = 2
    /\ ret.value.commonKGrams[1].positions1 # ret.value.commonKGrams[1].positions2

\* C21: "abcdefgh" and "zzzzzzzz" with k = 3 and no winnowing have disjoint
\* fingerprint sets, jaccard 0.0 and classification 'none'; and whenever
\* two fingerprint sets are disjoint and not both empty, compareDocuments
\* returns jaccard 0, similarityPercentage 0, level 'none' and, for every
\* threshold > 0, isPlagiarized = false.
C21_DisjointScoresZero ==
    (call.op = "compareDocuments" /\ ret.done) =>
        LET d1 == docs[call.doc1]
            d2 == docs[call.doc2]
            r == ret.value
            threshold == ThresholdOf(call)
        IN  /\ ( /\ d1.content = << "a","b","c","d","e","f","g","h" >>
                 /\ d2.content = << "z","z","z","z","z","z","z","z" >>
                 /\ config.kGramSize = 3
                 /\ ~config.useWinnowing
                 /\ ~config.useWordNGrams )
                 => /\ d1.fingerprints \cap d2.fingerprints = {}
                    /\ FracIs(r.similarity.jaccardSimilarity, 0, 1)
                    /\ r.classification.level = "none"
            /\ ( /\ d1.fingerprints \cap d2.fingerprints = {}
                 /\ d1.fingerprints \cup d2.fingerprints # {} )
                 => /\ FracIs(r.similarity.jaccardSimilarity, 0, 1)
                    /\ FracIs(r.similarityPercentage, 0, 1)
                    /\ r.classification.level = "none"
                    /\ (threshold.num > 0 => ~r.isPlagiarized)

\* the scenario: six 3-grams against one, compared with the default threshold
C21_Witness ==
    /\ call.op = "compareDocuments"
    /\ ret.done
    /\ call.threshold = Undefined
    /\ config.kGramSize = 3
    /\ docs[1].content = << "a","b","c","d","e","f","g","h" >>
    /\ docs[2].content = << "z","z","z","z","z","z","z","z" >>
    /\ Cardinality(docs[1].fingerprints) = 6
    /\ Cardinality(docs[2].fingerprints) = 1
    /\ ~ret.value.isPlagiarized

\* a size the configuration puts to use is not positive
NonPositiveSize(cfg) ==
    \/ ~cfg.useWordNGrams /\ cfg.kGramSize <= 0
    \/ cfg.useWordNGrams /\ cfg.wordNGramSize <= 0
    \/ cfg.useWinnowing /\ cfg.winnowingWindowSize <= 0

\* C22: fingerprinting with a non-positive shingle size (character or word)
\* or a non-positive winnowing window size fails with an error and returns
\* no fingerprint, empty or otherwise.
C22_NonPositiveSizeRejected ==
    NonPositiveSize(config) =>
        /\ docs = << >>
        /\ (call.op = "createDocumentFingerprint" => "error" \in DOMAIN ret)

\* C23: estimateSimilarityFromMinHash fails with an error, returning no
\* ratio, whenever the signatures differ in length; for signatures of equal
\* length it returns the number of positions where they agree, divided by
\* the length.
C23_MinHashLengthMismatch ==
    (call.op = "estimateSimilarityFromMinHash" /\ ret.done) =>
        LET sig1 == call.sig1
            sig2 == call.sig2
        IN  IF Len(sig1) # Len(sig2)
            THEN "error" \in DOMAIN ret /\ "value" \notin DOMAIN ret
            ELSE /\ "error" \notin DOMAIN ret
                 /\ "value" \in DOMAIN ret
                 /\ ret.value.num = Cardinality({ i \in 1..Len(sig1) : sig1[i] = sig2[i] })
                 /\ ret.value.den = Len(sig1)

\* a signature of two entries against one of three that begins with them
C23_Witness ==
    /\ call.op = "estimateSimilarityFromMinHash"
    /\ Len(call.sig1) = 2
    /\ Len(call.sig2) = 3
    /\ call.sig1 = SubSeq(call.sig2, 1, 2)
    /\ ret = Thrown("Signatures must have same length")

\* the comparison operations of a detector
ComparisonOps == {"compareDocuments", "compareAgainstMultiple", "compareAll"}

\* the result of the comparison call c made on the fingerprints d
ResultOf(c, d) ==
    CASE c.op = "compareDocuments" ->
            compareDocuments(d[c.doc1], d[c.doc2], c.threshold)
      [] c.op = "compareAgainstMultiple" ->
            compareAgainstMultiple(d[c.target], d, c.threshold)
      [] c.op = "compareAll" -> compareAll(d, c.threshold)

Supplied(arg, f) == f \in DOMAIN arg.values

\* the field f of the configuration cfg holds the value v
Holds(cfg, f, v) == f \in DOMAIN cfg /\ cfg[f] = v

\* C25: after construction with a partial config and any sequence of
\* updateConfig and getConfig calls every configuration field equals the
\* value most recently supplied for it, or its default (5, false, 4, false,
\* false, 3) if none was supplied: the constructor gives a supplied field its
\* value and any other its default, updateConfig gives a supplied field its
\* value and leaves every other field as it was, getConfig returns the
\* fields and changing what it returned does not change the detector, and
\* no call changes a fingerprint already returned.
C25_ConfigLastSupplied ==
    /\ [](call.op = "constructor" =>
            \A f \in DOMAIN DefaultConfig :
                Holds(config, f, IF Supplied(call.config, f)
                                 THEN call.config.values[f]
                                 ELSE DefaultConfig[f]))
    /\ [][ /\ (call'.op = "updateConfig" =>
                 /\ \A f \in DOMAIN DefaultConfig :
                      /\ f \in DOMAIN config
                      /\ Holds(config', f, IF Supplied(call'.newConfig, f)
                                           THEN call'.newConfig.values[f]
                                           ELSE config[f])
                 /\ docs' = docs)
           /\ (call'.op = "getConfig" =>
                 /\ ret' = Returned(config)
                 /\ config' = config
                 /\ docs' = docs)
           /\ (call'.op = "modifyCopy" => config' = config /\ docs' = docs)
           /\ (docs # << >> => docs' = docs) ]_vars

\* the quotient x, with a positive denominator, lies in [0, 1]
InUnitRange(x) == x.den > 0 /\ 0 <= x.num /\ x.num <= x.den

\* C26: for every pair of finite sets the bundle computeAllSimilarities
\* returns has intersectionSize <= min(set1Size, set2Size), unionSize =
\* set1Size + set2Size - intersectionSize, each of jaccardSimilarity,
\* cosineSimilarity and overlapCoefficient in [0, 1], and jaccardSimilarity
\* = 1 exactly when the two sets are equal.
C26_BundleBounds ==
    (call.op = "computeAllSimilarities" /\ ret.done) =>
        LET b == ret.value
        IN  /\ b.set1Size = Cardinality(call.set1)
            /\ b.set2Size = Cardinality(call.set2)
            /\ b.intersectionSize <= Min2(b.set1Size, b.set2Size)
            /\ b.unionSize = b.set1Size + b.set2Size - b.intersectionSize
            /\ InUnitRange(b.jaccardSimilarity)
            /\ InUnitRange(b.overlapCoefficient)
            /\ b.cosineSimilarity.radicand > 0
            /\ 0 <= b.cosineSimilarity.num
            /\ b.cosineSimilarity.num * b.cosineSimilarity.num
                   <= b.cosineSimilarity.radicand
            /\ (b.jaccardSimilarity.num = b.jaccardSimilarity.den
                   <=> call.set1 = call.set2)

\* a set of two items against a proper superset of three: overlap 1, Jaccard 2/3
C26_Witness ==
    /\ call.op = "computeAllSimilarities"
    /\ ret.done
    /\ call.set1 = {1, 2}
    /\ call.set2 = {1, 2, 3}
    /\ ret.value.intersectionSize = 2
    /\ ret.value.unionSize = 3
    /\ FracIs(ret.value.jaccardSimilarity, 2, 3)
    /\ FracIs(ret.value.overlapCoefficient, 1, 1)

\* the fingerprint d was winnowed from fewer shingles than the window holds,
\* and from one at least
ShortOfWindow(cfg, d) ==
    /\ cfg.useWinnowing
    /\ 1 <= Len(d.kGrams)
    /\ Len(d.kGrams) <= cfg.winnowingWindowSize - 1

C28_WinnowedSubset ==
    \A n \in 1..Len(docs) :
        (config.useWinnowing /\ WindowSize >= 1) =>
            LET kGrams == docs[n].kGrams
                all == { fnvHash(kGrams[i]) : i \in 1..Len(kGrams) }
                winnowed == docs[n].fingerprints
            IN  /\ winnowed \subseteq all
                /\ all = generateFingerprints(kGrams)
                /\ (WindowSize = 1 => winnowed = all)
                /\ Cardinality(winnowed) <= Max2(0, Len(kGrams) - WindowSize + 1)

\* window 2 over three shingles of which two differ: the one fingerprint
\* kept is the smaller of the two hashes
C28_Witness ==
    /\ config.useWinnowing
    /\ WindowSize = 2
    /\ Len(docs) >= 1
    /\ Len(docs[1].kGrams) = 3
    /\ Cardinality(docs[1].fingerprints) = 1
    /\ Cardinality(generateFingerprints(docs[1].kGrams)) = 2

\* C29: in character mode, for every content and every k >= 1, with or
\* without stop-word removal, the fingerprint returned has
\* |kGrams| = max(0, length(preprocessedText) - k + 1) and its i-th shingle
\* is the k characters of preprocessedText from index i on: the
\* normalization made again inside generateKGrams leaves the preprocessed
\* text as it is, so shingle positions index preprocessedText.
C29_ShinglesIndexPreprocessedText ==
    \A n \in 1..Len(docs) :
        (~config.useWordNGrams /\ config.kGramSize >= 1) =>
            LET text == docs[n].preprocessedText
                kGrams == docs[n].kGrams
                k == config.kGramSize
            IN  /\ normalize(text) = text
                /\ Len(kGrams) = Max2(0, Len(text) - k + 1)
                /\ \A i \in 1..Len(kGrams) : kGrams[i] = SubSeq(text, i, i + k - 1)

\* "the cat sat on the mat" with stop words removed and k = 2: the ten
\* shingles of "cat sat mat", the third "t "
C29_Witness ==
    /\ config.removeStopWords
    /\ config.kGramSize = 2
    /\ Len(docs) >= 1
    /\ Len(docs[1].content) = 22
    /\ docs[1].preprocessedText =
           << "c","a","t"," ","s","a","t"," ","m","a","t" >>
    /\ Len(docs[1].kGrams) = 10
    /\ docs[1].kGrams[3] = << "t", " " >>

\* C30: when both fingerprints were created with winnowing disabled, the
\* highlight data and the score of a comparison agree: the hash of every
\* shingle reported in commonKGrams belongs to both fingerprint sets, so a
\* non-empty commonKGrams implies intersectionSize >= 1 and
\* jaccardSimilarity > 0.
C30_HighlightsAgreeWithScore ==
    (call.op = "compareDocuments" /\ ~config.useWinnowing) =>
        LET common == ret.value.commonKGrams
            similarity == ret.value.similarity
        IN  /\ \A c \in 1..Len(common) :
                  /\ fnvHash(common[c].kgram) \in docs[call.doc1].fingerprints
                  /\ fnvHash(common[c].kgram) \in docs[call.doc2].fingerprints
            /\ (common # << >> =>
                  /\ similarity.intersectionSize >= 1
                  /\ similarity.jaccardSimilarity.den > 0
                  /\ similarity.jaccardSimilarity.num > 0)

\* two documents without winnowing that share their first shingle and
\* differ in another
C30_Witness ==
    /\ call.op = "compareDocuments"
    /\ ~config.useWinnowing
    /\ Len(ret.value.commonKGrams) = 1
    /\ ret.value.commonKGrams[1].positions1 = << 0 >>
    /\ ret.value.commonKGrams[1].positions2 = << 0 >>
    /\ ret.value.similarity.intersectionSize = 1
    /\ ret.value.similarity.unionSize > 1

====
